---- MODULE Spec2Model ----
(***************************************************************************)
(* One run of the N-of-1 dashboard script (src/app.py): the script is      *)
(* executed top to bottom; st.stop() ends the run.  Every action below is  *)
(* one section of the script.  Floating-point numbers are modelled as      *)
(* exact rationals [n, d] in lowest terms with d > 0; timestamps are       *)
(* counted in ticks, TicksPerDay ticks to a calendar day, so that the      *)
(* whole-day truncation of .dt.days and of strftime("%Y-%m-%d") is a real  *)
(* computation.                                                            *)
(***************************************************************************)
EXTENDS Integers, Sequences, FiniteSets

VARIABLES pc, msg, case_id, result, df, T0, slope, intercept,
          future_days, pred_df, prob_pd, label

vars == <<pc, msg, case_id, result, df, T0, slope, intercept,
          future_days, pred_df, prob_pd, label>>

(* ---------------------------- bounds ----------------------------------- *)
\* longest list of timepoints the API returns
MaxLen == 2
\* timestamps of the timepoints range over 0..MaxTick
MaxTick == 6
\* numeric sum_mm values range over 0..MaxVal
MaxVal == 1
\* the user selects among the first NumOptions options of the multiselect
NumOptions == 2
\* the runs that SpecFit follows up to the fit: longest list of timepoints,
\* and their timestamps range over 0..FitTick
FitLen == 3
FitTick == 3

\* resolution of a timestamp: ticks in one calendar day
TicksPerDay == 2

(* ---------------------------- rationals -------------------------------- *)
Abs(k) == IF k < 0 THEN -k ELSE k

RECURSIVE GCD(_, _)
GCD(a, b) == IF b = 0 THEN a ELSE GCD(b, a % b)

\* the rational num/den (den # 0) in lowest terms with a positive denominator
Rat(num, den) ==
    LET g == GCD(Abs(num), Abs(den))
        s == IF den < 0 THEN -1 ELSE 1
    IN  [n |-> (s * num) \div g, d |-> (s * den) \div g]

FromInt(k) == [n |-> k, d |-> 1]
RAdd(p, q) == Rat(p.n * q.d + q.n * p.d, p.d * q.d)
RSub(p, q) == Rat(p.n * q.d - q.n * p.d, p.d * q.d)
RMul(p, q) == Rat(p.n * q.n, p.d * q.d)
RDiv(p, q) == Rat(p.n * q.d, p.d * q.n)
RLt(p, q) == p.n * q.d < q.n * p.d
RLe(p, q) == p.n * q.d <= q.n * p.d

\* a name that has not been assigned yet
Unset == [n |-> 0, d |-> 0]

(* ---------------------------- helpers ---------------------------------- *)
RECURSIVE SumSeq(_)
SumSeq(s) == IF s = <<>> THEN 0 ELSE Head(s) + SumSeq(Tail(s))

Range(s) == {s[i] : i \in 1..Len(s)}

Min(S) == CHOOSE m \in S : \A k \in S : m <= k

\* sequences over S of length at most k
SeqUpTo(S, k) == UNION {[1..m -> S] : m \in 0..k}

\* sequences over S without repetition
Injective(s) == \A i, j \in 1..Len(s) : i # j => s[i] # s[j]

(* ---------------------------- inputs ----------------------------------- *)
\* a sum_mm cell of the API's JSON: a number, or null
RawValues == {[kind |-> "number", v |-> k] : k \in 0..MaxVal}
             \cup {[kind |-> "null", v |-> 0]}

\* one timepoint of result["data"], dated within 0..last
Timepoints(last) == [date : 0..last, sum_mm : RawValues]

\* what requests.get / response.json() can deliver: a failed request, an
\* error reported by the API, or up to k timepoints
Responses(k) ==
    {[status |-> "exception", data |-> <<>>], [status |-> "error", data |-> <<>>]}
    \cup {[status |-> "ok", data |-> d] : d \in SeqUpTo(Timepoints(MaxTick), k)}

NoResponse == [status |-> "none", data |-> <<>>]

\* the options of the multiselect
options == <<30, 60, 90, 120, 180, 240, 360>>

\* what st.multiselect can return: selected options, each at most once
Selections ==
    {s \in SeqUpTo({options[i] : i \in 1..NumOptions}, NumOptions) : Injective(s)}

(* ---------------------------- 1. loading ------------------------------- *)
\* pd.to_numeric(..., errors="coerce"): numbers stay, everything else is NaN
to_numeric(x) ==
    IF x.kind = "number" THEN [nan |-> FALSE, v |-> x.v] ELSE [nan |-> TRUE, v |-> 0]

\* pd.DataFrame(result["data"]) with the date and sum_mm columns converted;
\* index is the row label, the position in result["data"]
DataFrame(data) ==
    [i \in 1..Len(data) |->
        [index |-> i, date |-> data[i].date, sum_mm |-> to_numeric(data[i].sum_mm)]]

\* dropna left out: the rows without a sum_mm stay
dropna_keep(rows) == rows

\* df.dropna(subset=["sum_mm"])
RECURSIVE dropna(_)
dropna(rows) ==
    IF rows = <<>> THEN <<>>
    ELSE IF Head(rows).sum_mm.nan THEN dropna(Tail(rows))
         ELSE <<Head(rows)>> \o dropna(Tail(rows))

(* ---------------------------- 2. model --------------------------------- *)
\* sort_values left out: the rows stay in the order of the API
sort_none(rows) == {rows}

\* df.sort_values("date"): the default kind is quicksort, which pandas
\* documents as not stable, so rows of equal date may come out in any order
sort_values(rows) ==
    LET n == Len(rows)
        perms == {p \in [1..n -> 1..n] :
                    /\ \A i, j \in 1..n : i # j => p[i] # p[j]
                    /\ \A i, j \in 1..n : i < j => rows[p[i]].date <= rows[p[j]].date}
    IN  {[i \in 1..n |-> rows[p[i]]] : p \in perms}

\* df["date"].min()
date_min(rows) == Min({rows[i].date : i \in 1..Len(rows)})

\* (date - T0).dt.days: the whole days of a non-negative timedelta
dt_days(date, origin) == (date - origin) \div TicksPerDay

\* df["days"] = (df["date"] - T0).dt.days
with_days(rows, origin) ==
    [i \in 1..Len(rows) |->
        [index |-> rows[i].index, date |-> rows[i].date,
         sum_mm |-> rows[i].sum_mm, days |-> dt_days(rows[i].date, origin)]]

\* a fit through the origin (fit_intercept=False): no centring, intercept 0
LinearRegression_fit_origin(rows) ==
    LET n == Len(rows)
        sxx == SumSeq([i \in 1..n |-> rows[i].days * rows[i].days])
        sxy == SumSeq([i \in 1..n |-> rows[i].days * rows[i].sum_mm.v])
    IN  [coef |-> IF sxx = 0 THEN FromInt(0) ELSE Rat(sxy, sxx),
         intercept |-> FromInt(0)]

\* LinearRegression().fit(X, y): ordinary least squares with an intercept.
\* The data are centred, and the least-squares solver returns the
\* minimum-norm solution, which is 0 when every x equals the mean.
\* Sums are scaled by n to stay in the integers:
\*   sxx = n^2 * sum((x - mean_x)^2),  sxy = n^2 * sum((x - mean_x)(y - mean_y))
LinearRegression_fit(rows) ==
    LET n == Len(rows)
        x == [i \in 1..n |-> rows[i].days]
        y == [i \in 1..n |-> rows[i].sum_mm.v]
        sx == SumSeq(x)
        sy == SumSeq(y)
        sxx == SumSeq([i \in 1..n |-> (n * x[i] - sx) * (n * x[i] - sx)])
        sxy == SumSeq([i \in 1..n |-> (n * x[i] - sx) * (n * y[i] - sy)])
        coef == IF sxx = 0 THEN FromInt(0) ELSE Rat(sxy, sxx)
    IN  [coef |-> coef,
         intercept |-> RSub(Rat(sy, n), RMul(coef, Rat(sx, n)))]

(* ---------------------------- forecasts -------------------------------- *)
\* the guard on an empty selection left out
no_horizons_never(fd) == FALSE

\* `not future_days`
no_horizons(fd) == Len(fd) = 0

\* strftime("%Y-%m-%d"): the calendar day of a timestamp
strftime(t) == t \div TicksPerDay

\* timedelta(days=d)
timedelta(d) == d * TicksPerDay

\* the forecast clamped at 0
predicted_sum_mm_clamped(b0, b1, d) ==
    LET p == RAdd(b0, RMul(b1, FromInt(d)))
    IN  IF p.n < 0 THEN FromInt(0) ELSE p

\* intercept + slope * d
predicted_sum_mm(b0, b1, d) == RAdd(b0, RMul(b1, FromInt(d)))

\* the forecast rows in ascending order of horizon
preds_sorted(fd, b0, b1, origin) ==
    LET rank(i) == 1 + Cardinality({j \in 1..Len(fd) : fd[j] < fd[i]})
        at(k) == CHOOSE i \in 1..Len(fd) : rank(i) = k
    IN  [k \in 1..Len(fd) |->
            [days |-> fd[at(k)],
             predicted_sum_mm |-> RAdd(b0, RMul(b1, FromInt(fd[at(k)]))),
             date |-> (origin + fd[at(k)] * TicksPerDay) \div TicksPerDay]]

\* pd.DataFrame(preds): one row per entry of future_days, in its order
preds(fd, b0, b1, origin) ==
    [i \in 1..Len(fd) |->
        [days |-> fd[i],
         predicted_sum_mm |-> predicted_sum_mm(b0, b1, fd[i]),
         date |-> strftime(origin + timedelta(fd[i]))]]

(* ---------------------------- 4. progression --------------------------- *)
\* no clamping at all
clip_none(x, lo, hi) == x

\* np.clip(x, lo, hi) = minimum(maximum(x, lo), hi)
clip(x, lo, hi) ==
    LET m == IF RLt(x, lo) THEN lo ELSE x
    IN  IF RLt(hi, m) THEN hi ELSE m

\* float(np.clip((slope / 1.0) * 100 + 50, 0, 100))
risk_percent(s) ==
    clip(RAdd(RMul(RDiv(s, FromInt(1)), FromInt(100)), FromInt(50)),
         FromInt(0), FromInt(100))

\* the shrinking threshold taken inclusively
trend_label_le(s) ==
    IF RLt(FromInt(0), s) THEN "growing"
    ELSE IF RLe(s, Rat(-1, 2)) THEN "shrinking"
    ELSE "stable"

\* the growing threshold taken inclusively
trend_label_ge(s) ==
    IF RLe(FromInt(0), s) THEN "growing"
    ELSE IF RLt(s, Rat(-1, 2)) THEN "shrinking"
    ELSE "stable"

\* the branch on slope: st.error / st.success / st.info
trend_label(s) ==
    IF RLt(FromInt(0), s) THEN "growing"
    ELSE IF RLt(s, Rat(-1, 2)) THEN "shrinking"
    ELSE "stable"

(* ---------------------------- the run ---------------------------------- *)
Init ==
    /\ pc = "case_id"
    /\ msg = "none"
    /\ case_id = ""
    /\ result = NoResponse
    /\ df = <<>>
    /\ T0 = 0
    /\ slope = Unset
    /\ intercept = Unset
    /\ future_days = <<>>
    /\ pred_df = <<>>
    /\ prob_pd = Unset
    /\ label = "none"

\* st.<kind>(...) followed by st.stop()
Stop(m) == pc' = "stopped" /\ msg' = m

\* lines 27-34: the case_id text input
SelectCase ==
    /\ pc = "case_id"
    /\ \E c \in {"", "91e64fea"} :
        /\ case_id' = c
        /\ IF c = "" THEN Stop("no_case_id")
                     ELSE pc' = "fetch" /\ msg' = msg
    /\ UNCHANGED <<result, df, T0, slope, intercept, future_days, pred_df,
                   prob_pd, label>>

\* lines 37-69: fetch the timepoints, convert the columns, drop the rows
\* without a sum_mm
LoadTimepoints ==
    /\ pc = "fetch"
    /\ \E r \in Responses(MaxLen) :
        /\ result' = r
        /\ IF r.status = "exception" THEN Stop("request_error") /\ df' = df
           ELSE IF r.status = "error" THEN Stop("api_error") /\ df' = df
           ELSE IF Len(r.data) = 0 THEN Stop("no_timepoints") /\ df' = df
           ELSE /\ df' = dropna(DataFrame(r.data))
                /\ IF Len(df') = 0 THEN Stop("no_tumor_burden")
                                   ELSE pc' = "model" /\ msg' = msg
    /\ UNCHANGED <<case_id, T0, slope, intercept, future_days, pred_df,
                   prob_pd, label>>

\* lines 76-93: sort, origin, day offsets, fit
FitModel ==
    /\ pc = "model"
    /\ \E sorted \in sort_values(df) :
        LET origin == date_min(sorted)
            rows == with_days(sorted, origin)
            model == LinearRegression_fit(rows)
        IN  /\ df' = rows
            /\ T0' = origin
            /\ slope' = model.coef
            /\ intercept' = model.intercept
    /\ pc' = "forecast"
    /\ UNCHANGED <<msg, case_id, result, future_days, pred_df, prob_pd, label>>

\* lines 95-114: the horizon multiselect and the forecast table
Forecast ==
    /\ pc = "forecast"
    /\ \E fd \in Selections :
        /\ future_days' = fd
        /\ IF no_horizons(fd)
           THEN Stop("no_horizons") /\ pred_df' = pred_df
           ELSE /\ pred_df' = preds(fd, intercept, slope, T0)
                /\ pc' = "progression"
                /\ msg' = msg
    /\ UNCHANGED <<case_id, result, df, T0, slope, intercept, prob_pd, label>>

\* lines 143-186: the heuristic progression probability and the trend
\* message; the rest of the script only exports
Progression ==
    /\ pc = "progression"
    /\ prob_pd' = risk_percent(slope)
    /\ label' = trend_label(slope)
    /\ pc' = "done"
    /\ msg' = "success"
    /\ UNCHANGED <<case_id, result, df, T0, slope, intercept, future_days,
                   pred_df>>

Next ==
    \/ SelectCase
    \/ LoadTimepoints
    \/ FitModel
    \/ Forecast
    \/ Progression

Spec == Init /\ [][Next]_vars

\* Runs with up to FitLen timepoints dated within 0..FitTick, taken up at
\* the end of section 1 (the state LoadTimepoints leaves) and followed
\* through the fit.
InitFit ==
    /\ pc = "model"
    /\ msg = "none"
    /\ case_id = "91e64fea"
    /\ \E m \in 1..FitLen : \E d \in [1..m -> Timepoints(FitTick)] :
        /\ result = [status |-> "ok", data |-> d]
        /\ df = dropna(DataFrame(d))
        /\ Len(df) > 0
    /\ T0 = 0
    /\ slope = Unset
    /\ intercept = Unset
    /\ future_days = <<>>
    /\ pred_df = <<>>
    /\ prob_pd = Unset
    /\ label = "none"

NextFit == FitModel

SpecFit == InitFit /\ [][NextFit]_vars

(* ---------------------------- vocabulary ------------------------------- *)
\* the model has been fitted (lines 76-87 have run)
Fitted == slope # Unset

\* the forecast table has been built (lines 95-114 have run)
Forecasted == pc \in {"progression", "done"}

\* the run has ended, by st.stop() or by reaching the end of the script
Ended == pc \in {"stopped", "done"}

\* nothing of the analysis has been produced
NoResults ==
    /\ slope = Unset
    /\ intercept = Unset
    /\ pred_df = <<>>
    /\ prob_pd = Unset
    /\ label = "none"

\* positions of result["data"] that carry a numeric sum_mm
NumericRows == {i \in 1..Len(result.data) : result.data[i].sum_mm.kind = "number"}

\* the day offsets of the rows of df, from their dates alone
DayOffsets ==
    LET m == Min({df[i].date : i \in 1..Len(df)})
    IN  {k \in 0..MaxTick : \E i \in 1..Len(df) :
            k * TicksPerDay <= df[i].date - m /\ df[i].date - m < (k + 1) * TicksPerDay}

\* the day offsets of the fitted series
DayColumn == {df[i].days : i \in 1..Len(df)}

\* the run stopped because there was nothing to analyse (EmptySeriesError)
EmptySeriesError == msg \in {"no_timepoints", "no_tumor_burden"}

(* ---------------------------- C1 --------------------------------------- *)
\* C1 as stated: every ended run over a series with at least two distinct
\* day offsets has reached the end of the script with a trend model, a risk
\* score and a trend label, and as many forecasts as horizons; an empty
\* horizon list included.
C1_AsStated ==
    (Fitted /\ Cardinality(DayColumn) >= 2 /\ Ended) =>
        /\ pc = "done"
        /\ prob_pd # Unset
        /\ label \in {"growing", "shrinking", "stable"}
        /\ Len(pred_df) = Len(future_days)

\* C1 amended: an ended run over a series with at least two distinct day
\* offsets has a trend model; with a non-empty horizon list it reached the
\* end of the script with one forecast per horizon, a risk score and a trend
\* label; with an empty horizon list it was stopped with a warning, and has
\* no forecast, no risk score and no trend label.
C1_EmptyHorizonsStop ==
    (Fitted /\ Cardinality(DayColumn) >= 2 /\ Ended) =>
        /\ intercept # Unset
        /\ IF future_days = <<>>
           THEN /\ pc = "stopped"
                /\ msg = "no_horizons"
                /\ pred_df = <<>>
                /\ prob_pd = Unset
                /\ label = "none"
           ELSE /\ pc = "done"
                /\ Len(pred_df) = Len(future_days)
                /\ prob_pd # Unset
                /\ label \in {"growing", "shrinking", "stable"}

C1_Witness ==
    /\ Fitted
    /\ Cardinality(DayColumn) >= 2
    /\ pc = "stopped"
    /\ future_days = <<>>

(* ---------------------------- C2 --------------------------------------- *)
\* C2: a series with one point, or with one day offset shared by all its
\* points, never has a slope, an intercept, a forecast, a risk score or a
\* trend label.
C2_InsufficientData ==
    (Len(df) >= 1 /\ Cardinality(DayOffsets) < 2) => NoResults

(* ---------------------------- C3 --------------------------------------- *)
\* C3: the run stops for want of data exactly when the timepoints were
\* fetched and none of them has a numeric sum_mm (an empty list included);
\* such a run has ended without any result, and timepoints with at least
\* one numeric sum_mm are not stopped here, whatever else they contain.
C3_EmptySeries ==
    /\ result.status = "ok" => (EmptySeriesError <=> NumericRows = {})
    /\ result.status # "ok" => ~EmptySeriesError
    /\ EmptySeriesError => (pc = "stopped" /\ NoResults)

C3_Witness ==
    /\ EmptySeriesError
    /\ Len(result.data) >= 2

(* ---------------------------- C4 --------------------------------------- *)
\* slopes to compare the fitted slope with
GridMax == 3
SlopeGrid == {Rat(a, b) : a \in (-GridMax)..GridMax, b \in 1..GridMax}
GridRisk == [s \in SlopeGrid |-> risk_percent(s)]

\* C4: the risk score is clamp(100 * slope + 50, 0, 100): it lies in
\* [0, 100], is 50 at slope 0, 100 from slope 1/2 on and 0 up to slope -1/2,
\* and is non-decreasing in the slope.
C4_RiskPercent ==
    prob_pd # Unset =>
        /\ prob_pd.d > 0
        /\ 0 <= prob_pd.n /\ prob_pd.n <= 100 * prob_pd.d
        /\ (slope.n = 0) => prob_pd = FromInt(50)
        /\ (2 * slope.n >= slope.d) => prob_pd = FromInt(100)
        /\ (2 * slope.n <= -slope.d) => prob_pd = FromInt(0)
        /\ (-slope.d < 2 * slope.n /\ 2 * slope.n < slope.d) =>
                prob_pd.n * slope.d = prob_pd.d * (100 * slope.n + 50 * slope.d)
        /\ \A s \in SlopeGrid :
                /\ RLe(s, slope) => RLe(GridRisk[s], prob_pd)
                /\ RLe(slope, s) => RLe(prob_pd, GridRisk[s])

C4_Witness ==
    /\ prob_pd = FromInt(100)
    /\ 2 * slope.n > slope.d

(* ---------------------------- C5 --------------------------------------- *)
\* C5: the trend label is growing for a slope above 0, shrinking for a
\* slope below -1/2, and stable for every slope from -1/2 to 0, both ends
\* included.
C5_TrendLabel ==
    label # "none" =>
        /\ label \in {"growing", "shrinking", "stable"}
        /\ label = "growing" <=> slope.n > 0
        /\ label = "shrinking" <=> 2 * slope.n < -slope.d
        /\ label = "stable" <=> (-slope.d <= 2 * slope.n /\ slope.n <= 0)

C5_Witness ==
    /\ label = "stable"
    /\ slope = Rat(-1, 2)

(* ---------------------------- C6 --------------------------------------- *)
\* the part of C6 the sort decides in every case: origin, day offsets, order
Normalized ==
    LET valid == NumericRows
        n == Len(df)
    IN  /\ {df[i].index : i \in 1..n} = valid
        /\ n = Cardinality(valid)
        /\ \A i \in 1..n :
            /\ df[i].date = result.data[df[i].index].date
            /\ df[i].sum_mm.v = result.data[df[i].index].sum_mm.v
            /\ df[i].date = T0 => df[i].days = 0
            /\ df[i].days >= 0
            /\ df[i].days * TicksPerDay <= df[i].date - T0
            /\ df[i].date - T0 < (df[i].days + 1) * TicksPerDay
        /\ \E i \in valid : T0 = result.data[i].date
        /\ \A i \in valid : T0 <= result.data[i].date
        /\ \A i \in 1..(n - 1) : df[i].days <= df[i + 1].days

\* C6 as stated: the normalized series has the minimum timestamp as its
\* origin, whole-day offsets from it, is ordered by day offset, and
\* measurements of equal timestamp keep their original relative order.
C6_AsStated ==
    Fitted =>
        /\ Normalized
        /\ \A i, j \in 1..Len(df) :
            (i < j /\ df[i].date = df[j].date) => df[i].index < df[j].index

\* C6 amended: as stated, without the order of measurements of equal
\* timestamp.
C6_Normalized == Fitted => Normalized

C6_Witness ==
    /\ Fitted
    /\ T0 > 0
    /\ \E i, j \in NumericRows : i < j /\ result.data[i].date > result.data[j].date
    /\ \E i \in 1..Len(df) : df[i].date > T0 /\ df[i].days = 0
    /\ \E i \in 1..Len(result.data) : i \notin NumericRows

(* ---------------------------- C7 --------------------------------------- *)
\* C7: the forecast table has one row per requested horizon, in the order
\* the horizons were requested.
C7_OrderPreserved ==
    Forecasted =>
        /\ Len(pred_df) = Len(future_days)
        /\ \A i \in 1..Len(future_days) : pred_df[i].days = future_days[i]
        /\ \A h \in Range(future_days) :
            Cardinality({i \in 1..Len(pred_df) : pred_df[i].days = h})
                = Cardinality({i \in 1..Len(future_days) : future_days[i] = h})

C7_Witness ==
    /\ Forecasted
    /\ Len(future_days) >= 2
    /\ future_days[1] > future_days[2]

(* ---------------------------- C8 --------------------------------------- *)
\* C8: every forecast row carries intercept + slope * horizon, from the
\* fitted slope and intercept, and the calendar day horizon days after the
\* origin's; the value is not clamped at 0.
C8_ForecastValue ==
    Forecasted =>
        \A i \in 1..Len(pred_df) :
            LET p == pred_df[i].predicted_sum_mm
                h == pred_df[i].days
            IN  /\ p.d > 0
                /\ p.n * (slope.d * intercept.d)
                     = p.d * (intercept.n * slope.d + slope.n * h * intercept.d)
                /\ pred_df[i].date * TicksPerDay <= T0 + h * TicksPerDay
                /\ T0 + h * TicksPerDay < (pred_df[i].date + 1) * TicksPerDay

C8_Witness ==
    /\ Forecasted
    /\ slope.n < 0
    /\ \E i \in 1..Len(pred_df) : pred_df[i].predicted_sum_mm.n < 0

(* ---------------------------- C9 --------------------------------------- *)
\* the line through rows i and j of df, of different day offsets
LineB(i, j) == Rat(df[j].sum_mm.v - df[i].sum_mm.v, df[j].days - df[i].days)
LineA(i, j) == RSub(FromInt(df[i].sum_mm.v), RMul(LineB(i, j), FromInt(df[i].days)))
OnLine(i, j) ==
    \A k \in 1..Len(df) :
        (df[k].sum_mm.v - df[i].sum_mm.v) * (df[j].days - df[i].days)
            = (df[j].sum_mm.v - df[i].sum_mm.v) * (df[k].days - df[i].days)

\* C9: when every point of the series lies on one line value = a + b * day
\* offset, and there are two distinct day offsets, the fit returns slope b
\* and intercept a.
C9_ExactOnLine ==
    Fitted =>
        \A i, j \in 1..Len(df) :
            (df[i].days # df[j].days /\ OnLine(i, j)) =>
                /\ slope = LineB(i, j)
                /\ intercept = LineA(i, j)

C9_Witness ==
    /\ Fitted
    /\ Cardinality({df[k].date : k \in 1..Len(df)}) >= 3
    /\ \E i, j \in 1..Len(df) :
        /\ df[i].days # df[j].days
        /\ OnLine(i, j)
        /\ LineB(i, j).n # 0
        /\ LineA(i, j).n # 0

(* ---------------------------- C10 -------------------------------------- *)
\* C10: the trend label and the risk score of a run agree: shrinking comes
\* with a risk of 0, growing with a risk above 50, stable with a risk from
\* 0 to 50.
C10_LabelMatchesRisk ==
    label # "none" =>
        /\ label = "shrinking" => prob_pd = FromInt(0)
        /\ label = "growing" => RLt(FromInt(50), prob_pd)
        /\ label = "stable" => (RLe(FromInt(0), prob_pd) /\ RLe(prob_pd, FromInt(50)))

\* a risk of 0 with the label stable
C10_Witness ==
    /\ label = "stable"
    /\ prob_pd = FromInt(0)

\* the label growing with a risk below 100
C10_GrowingBelow100 ==
    /\ label = "growing"
    /\ RLt(prob_pd, FromInt(100))

====
